---- MODULE Spec2Model ----
(***************************************************************************)
(* A state-machine model of app/backend/app.py: the /ask and /chat         *)
(* handlers with the bearer-token refresh (ensure_openai_token), the       *)
(* blob listing of /get_documents, and the two deletion endpoints          *)
(* /delete_document and /delete_all_documents.                             *)
(*                                                                         *)
(* Strings that the code slices (blob names, the 'name' parameter) are     *)
(* sequences of one-character strings, so that rfind, slicing, strip and   *)
(* startswith are computed as Python computes them.                        *)
(***************************************************************************)
EXTENDS Integers, Sequences, FiniteSets, TLC

VARIABLES
    \* ---- /ask, /chat and ensure_openai_token
    now,             \* int(time.time())
    openai_token,    \* the global openai_token: [token, expires_on]
    api_key,         \* the global openai.api_key
    issued,          \* issued[id] = expires_on of the token with that id
    ask_approaches,  \* registry of /ask
    chat_approaches, \* registry of /chat
    pc,              \* pc[t]: position of worker thread t in its handler
    req,             \* req[t]: the request thread t is handling
    tokreg,          \* tokreg[t]: the value thread t holds between two steps:
                     \* the token get_token returned, then openai_token.token
    chk,             \* chk[t]: what ensure_openai_token saw and decided
    ran,             \* ran[t]: the strategies run for the request, in order
    resp,            \* resp[t]: the response of the request
    \* ---- the services behind blob_client and search_client
    container,       \* AZURE_STORAGE_CONTAINER
    storage,         \* storage[c]: the blobs of container c
    index,           \* index[f]: number of index documents with sourcefile f
    stale,           \* stale[f]: number of deleted documents with sourcefile
                     \* f that a search still returns
    \* ---- /get_documents
    listing,         \* what blob_container.list_blobs() yields, in order
    gdi,             \* index of the next blob of the for loop
    blob_data,       \* the dict, as its items in insertion order
    gdpc,
    \* ---- /delete_document
    ddpc,
    ddbody,          \* the kind of JSON value request.get_json() returned
    ddname,          \* data.get('name')
    ddlist,          \* the blobs still to be visited by the for loop
    ddlisted,        \* the blobs the for loop has visited
    ddfailed,        \* the blobs whose deletion raised
    ddresults,       \* results of the last filtered search: [live, gone],
                     \* the numbers of its documents that are, and are no
                     \* longer, in the index
    ddresp,
    storage0,        \* storage and index when the request arrived
    index0,
    \* ---- /delete_all_documents
    dapc,
    daBatch,         \* the page of the last search: daBatch[f] is the number
                     \* of its documents with sourcefile f that are in the
                     \* index; deleting the others again changes nothing
    daInit           \* number of documents when the request arrived

askVars == <<now, openai_token, api_key, issued, ask_approaches,
             chat_approaches, pc, req, tokreg, chk, ran, resp>>
envVars == <<container, storage, index, stale>>
gdVars == <<listing, gdi, blob_data, gdpc>>
ddVars == <<ddpc, ddbody, ddname, ddlist, ddlisted, ddfailed, ddresults, ddresp,
            storage0, index0>>
daVars == <<dapc, daBatch, daInit>>
vars == <<askVars, envVars, gdVars, ddVars, daVars>>


Min2(a, b) == IF a < b THEN a ELSE b
Max2(a, b) == IF a > b THEN a ELSE b
SetMax(S) == CHOOSE x \in S : \A y \in S : y <= x
SetMin(S) == CHOOSE x \in S : \A y \in S : x <= y

(***************************************************************************)
(* Python string operations, on sequences of characters.                   *)
(***************************************************************************)
\* str.rfind(c): the 0-based index of the last occurrence, -1 when absent
RFind(s, c) ==
    LET at == {i \in 1..Len(s) : s[i] = c}
    IN  IF at = {} THEN -1 ELSE SetMax(at) - 1

\* s[:e], a negative e counting from the end
SliceTo(s, e) ==
    LET stop == IF e < 0 THEN Max2(Len(s) + e, 0) ELSE Min2(e, Len(s))
    IN  SubSeq(s, 1, stop)

\* the characters str.strip() removes: those with str.isspace().  A character
\* that a string literal cannot hold is written by its code point
Whitespace ==
    {" ", "\t", "\n", "\r", "\f", "U+000B", "U+001C", "U+001D", "U+001E",
     "U+001F", "U+0085", "U+00A0", "U+1680", "U+2000", "U+2001", "U+2002",
     "U+2003", "U+2004", "U+2005", "U+2006", "U+2007", "U+2008", "U+2009",
     "U+200A", "U+2028", "U+2029", "U+202F", "U+205F", "U+3000"}

\* str.strip()
Strip(s) ==
    LET ink == {i \in 1..Len(s) : s[i] \notin Whitespace}
    IN  IF ink = {} THEN <<>> ELSE SubSeq(s, SetMin(ink), SetMax(ink))

\* str.startswith(p)
StartsWith(s, p) == Len(p) <= Len(s) /\ SubSeq(s, 1, Len(p)) = p

(***************************************************************************)
(* Blob storage and the search index, shared by /get_documents,            *)
(* /delete_document and /delete_all_documents.  A blob is                  *)
(* [name, last_modified, etag].  The handlers use only the sourcefile of   *)
(* an index document and the ids of the documents a search returns, so the *)
(* index is a number of documents per sourcefile.  A search also returns   *)
(* documents that were deleted a moment ago (stale).                       *)
(***************************************************************************)
Containers == {"content", "docs"}
Pdf == <<".", "p", "d", "f">>
SourceFiles == {<<"a">> \o Pdf, <<"a", "b">> \o Pdf}
SearchTop == 1000

RECURSIVE SumOver(_, _)
SumOver(f, S) ==
    IF S = {} THEN 0
    ELSE LET x == CHOOSE y \in S : TRUE IN f[x] + SumOver(f, S \ {x})
Total(f) == SumOver(f, SourceFiles)
NoDocs == [f \in SourceFiles |-> 0]

\* the functions g on S with g[x] in 0..most[x]
RECURSIVE UpTo(_, _)
UpTo(S, most) ==
    IF S = {} THEN {<<>>}
    ELSE LET x == CHOOSE y \in S : TRUE
         IN  {g @@ (x :> n) : g \in UpTo(S \ {x}, most), n \in 0..most[x]}

\* the number of documents a search with top=1000 returns of count matches
PageSize(count) == Min2(count, SearchTop)

\* what a search can return of the sourcefiles F when it returns size
\* documents: any documents of the index and any stale ones
Pages(F, size) ==
    LET most == [f \in SourceFiles |->
                   IF f \in F THEN Min2(index[f], size) ELSE 0]
    IN  {live \in UpTo(SourceFiles, most) :
           /\ Total(live) <= size
           /\ size - Total(live) <= SumOver(stale, F)}

\* how many of the `mine` documents of one page can also be among the
\* `other` documents of another page, both out of n documents
Overlaps(mine, other, n) == Max2(0, mine + other - n)..Min2(mine, other)

\* delete_documents(documents=...) of a page: its documents leave the index
\* and stay visible to searches for a while
IndexAfterDelete(live) == [f \in SourceFiles |-> index[f] - live[f]]
StaleAfterDelete(live) == [f \in SourceFiles |-> stale[f] + live[f]]

\* the search service catches up with one deletion, or with all deletions
\* of a sourcefile
Propagate ==
    /\ \E f \in SourceFiles :
         /\ stale[f] > 0
         /\ \/ stale' = [stale EXCEPT ![f] = @ - 1]
            \/ stale' = [stale EXCEPT ![f] = 0]
    /\ UNCHANGED <<container, storage, index>>
    /\ UNCHANGED <<askVars, gdVars, ddVars, daVars>>

(***************************************************************************)
(* /get_documents                                                          *)
(***************************************************************************)
MaxNameLen == 3
MaxBlobs == 2
MaxDate == 2
Alphabet == {"a", "b", "-", " ", "U+000B"}

Names == UNION {[1..n -> Alphabet] : n \in 1..MaxNameLen}

\* base_name = full_blob_name[:full_blob_name.rfind("-")].strip()
BaseName(name) == Strip(SliceTo(name, RFind(name, "-")))

HasKey(d, k) == \E i \in 1..Len(d) : d[i].key = k
KeyAt(d, k) == CHOOSE i \in 1..Len(d) : d[i].key = k
Get(d, k) == d[KeyAt(d, k)].value
\* d[k] = v: an existing key keeps its place, a new key goes last
Put(d, k, v) ==
    IF HasKey(d, k)
    THEN [d EXCEPT ![KeyAt(d, k)] = [key |-> k, value |-> v]]
    ELSE Append(d, [key |-> k, value |-> v])

\* the orders in which list_blobs() can yield the blobs of a container
Listings(blobs) ==
    {l \in [1..Cardinality(blobs) -> blobs] :
       \A i, j \in 1..Cardinality(blobs) : i # j => l[i] # l[j]}

\* a request reaches get_document_names(): blob_data = dict() and the
\* listing of the container
GDList ==
    /\ gdpc = "idle"
    /\ listing' \in Listings(storage[container])
    /\ gdi' = 1
    /\ blob_data' = <<>>
    /\ gdpc' = "loop"
    /\ UNCHANGED <<askVars, envVars, ddVars, daVars>>

\* one iteration of the for loop
GDStep ==
    /\ gdpc = "loop"
    /\ gdi <= Len(listing)
    /\ LET blob == listing[gdi]
           base_name == BaseName(blob.name)
       IN  IF HasKey(blob_data, base_name)
              /\ Get(blob_data, base_name)[1] < blob.last_modified
           THEN blob_data' = blob_data
           ELSE blob_data' = Put(blob_data, base_name,
                                 <<blob.last_modified, blob.etag>>)
    /\ gdi' = gdi + 1
    /\ UNCHANGED <<listing, gdpc, askVars, envVars, ddVars, daVars>>

\* return list(blob_data.items())
GDReturn ==
    /\ gdpc = "loop"
    /\ gdi > Len(listing)
    /\ gdpc' = "done"
    /\ UNCHANGED <<listing, gdi, blob_data, askVars, envVars, ddVars, daVars>>

\* the response is sent
GDFinish ==
    /\ gdpc = "done"
    /\ gdpc' = "idle"
    /\ listing' = <<>>
    /\ gdi' = 1
    /\ blob_data' = <<>>
    /\ UNCHANGED <<askVars, envVars, ddVars, daVars>>

GDInit ==
    /\ listing = <<>>
    /\ gdi = 1
    /\ blob_data = <<>>
    /\ gdpc = "idle"

(***************************************************************************)
(* /ask, /chat and ensure_openai_token.  Flask serves requests on worker   *)
(* threads; the globals openai_token and openai.api_key are shared, and a  *)
(* thread can be preempted between any two reads or writes of them.  What  *)
(* a strategy reads from the search index is not part of this model.       *)
(***************************************************************************)
Margin == 60
TokenLifetime == 40
TickStep == 50
MaxTime == 200
MaxTokens == 3
Threads == {1, 2}

Missing == "<missing>"        \* the key is not in the JSON body
Unhashable == "<list>"        \* a JSON array: not usable as a dict key
ApproachValues == {"rtr", "rrr", "rda", "xyz", Missing, Unhashable}
PayloadValues == {"q", Missing}
Requests == [endpoint : {"ask", "chat"}, approach : ApproachValues,
             payload : PayloadValues]

NoReq == [endpoint |-> "", approach |-> "", payload |-> ""]
NoResult == [by |-> "", input |-> ""]
NoResp == [kind |-> "", status |-> 0, error |-> "", result |-> NoResult]
NoChk == [expires_on |-> 0, at |-> 0, refresh |-> FALSE]

AskApproaches0 == [rtr |-> "RetrieveThenReadApproach",
                   rrr |-> "ReadRetrieveReadApproach",
                   rda |-> "ReadDecomposeAsk"]
ChatApproaches0 == [rrr |-> "ChatReadRetrieveReadApproach"]

\* jsonify(...), status
Json(status, error, result) ==
    [kind |-> "json", status |-> status, error |-> error, result |-> result]
\* an exception that leaves the view function
Raised(error) ==
    [kind |-> "raised", status |-> 0, error |-> error, result |-> NoResult]

\* openai_token.expires_on < int(time.time()) - 60
NeedsRefresh(tok, t) == tok.expires_on < t - Margin

\* a slip: /chat looks the approach up in the registry of /ask
RegistryOfAsk(endpoint) == ask_approaches

\* the registry a handler looks the approach up in
Registry(endpoint) ==
    IF endpoint = "ask" THEN ask_approaches ELSE chat_approaches

\* the body field impl.run is given: 'question' in /ask, 'history' in /chat
PayloadKey(endpoint) == IF endpoint = "ask" THEN "question" ELSE "history"

\* time passes
Tick ==
    /\ now + TickStep <= MaxTime
    /\ now' = now + TickStep
    /\ UNCHANGED <<openai_token, api_key, issued, ask_approaches,
                   chat_approaches, pc, req, tokreg, chk, ran, resp>>
    /\ UNCHANGED <<envVars, gdVars, ddVars, daVars>>

\* a request reaches ask() or chat() on thread t
Receive(t) ==
    /\ pc[t] = "idle"
    /\ \E r \in Requests : req' = [req EXCEPT ![t] = r]
    /\ pc' = [pc EXCEPT ![t] = "ensure"]
    /\ UNCHANGED <<now, openai_token, api_key, issued, ask_approaches,
                   chat_approaches, tokreg, chk, ran, resp>>
    /\ UNCHANGED <<envVars, gdVars, ddVars, daVars>>

\* ensure_openai_token: the if
EnsureCheck(t) ==
    /\ pc[t] = "ensure"
    /\ LET refresh == NeedsRefresh(openai_token, now)
       IN  /\ chk' = [chk EXCEPT ![t] = [expires_on |-> openai_token.expires_on,
                                         at |-> now, refresh |-> refresh]]
           /\ pc' = [pc EXCEPT ![t] = IF refresh THEN "fetch" ELSE "approach"]
    /\ UNCHANGED <<now, openai_token, api_key, issued, ask_approaches,
                   chat_approaches, req, tokreg, ran, resp>>
    /\ UNCHANGED <<envVars, gdVars, ddVars, daVars>>

\* azure_credential.get_token(...): the service issues a new token and the
\* call returns it, or the call raises.  The thread waits inside the call,
\* so other threads run before the result is assigned
EnsureFetch(t) ==
    /\ pc[t] = "fetch"
    /\ \/ /\ Len(issued) < MaxTokens
          /\ issued' = Append(issued, now + TokenLifetime)
          /\ tokreg' = [tokreg EXCEPT ![t] = Len(issued) + 1]
          /\ pc' = [pc EXCEPT ![t] = "assign"]
          /\ resp' = resp
       \/ /\ resp' = [resp EXCEPT ![t] = Raised("ClientAuthenticationError")]
          /\ pc' = [pc EXCEPT ![t] = "done"]
          /\ UNCHANGED <<issued, tokreg>>
    /\ UNCHANGED <<now, openai_token, api_key, ask_approaches,
                   chat_approaches, req, chk, ran>>
    /\ UNCHANGED <<envVars, gdVars, ddVars, daVars>>

\* openai_token = <the token get_token returned>: the store to the global
EnsureAssign(t) ==
    /\ pc[t] = "assign"
    /\ openai_token' = [token |-> tokreg[t], expires_on |-> issued[tokreg[t]]]
    /\ pc' = [pc EXCEPT ![t] = "loadtok"]
    /\ UNCHANGED <<now, api_key, issued, ask_approaches, chat_approaches,
                   req, tokreg, chk, ran, resp>>
    /\ UNCHANGED <<envVars, gdVars, ddVars, daVars>>

\* openai.api_key = openai_token.token: the read of the global
EnsureLoad(t) ==
    /\ pc[t] = "loadtok"
    /\ tokreg' = [tokreg EXCEPT ![t] = openai_token.token]
    /\ pc' = [pc EXCEPT ![t] = "storekey"]
    /\ UNCHANGED <<now, openai_token, api_key, issued, ask_approaches,
                   chat_approaches, req, chk, ran, resp>>
    /\ UNCHANGED <<envVars, gdVars, ddVars, daVars>>

\* openai.api_key = openai_token.token: the write of the attribute
EnsureStore(t) ==
    /\ pc[t] = "storekey"
    /\ api_key' = tokreg[t]
    /\ pc' = [pc EXCEPT ![t] = "approach"]
    /\ UNCHANGED <<now, openai_token, issued, ask_approaches,
                   chat_approaches, req, tokreg, chk, ran, resp>>
    /\ UNCHANGED <<envVars, gdVars, ddVars, daVars>>

\* approach = request.json["approach"], before the try
ReadApproach(t) ==
    /\ pc[t] = "approach"
    /\ IF req[t].approach = Missing
       THEN /\ resp' = [resp EXCEPT ![t] = Raised("KeyError: 'approach'")]
            /\ pc' = [pc EXCEPT ![t] = "done"]
       ELSE /\ pc' = [pc EXCEPT ![t] = "dispatch"]
            /\ resp' = resp
    /\ UNCHANGED <<now, openai_token, api_key, issued, ask_approaches,
                   chat_approaches, req, tokreg, chk, ran>>
    /\ UNCHANGED <<envVars, gdVars, ddVars, daVars>>

\* the try block: look the approach up, run it, answer.  impl.run returns
\* a result that jsonify serialises, or one of the two raises
Dispatch(t) ==
    /\ pc[t] = "dispatch"
    /\ LET r == req[t]
           registry == Registry(r.endpoint)
       IN  IF r.approach = Unhashable
           THEN \* dict.get raises TypeError, caught by except Exception
                /\ resp' = [resp EXCEPT ![t] =
                               Json(500, "TypeError: unhashable type", NoResult)]
                /\ ran' = ran
           ELSE IF r.approach \notin DOMAIN registry
           THEN /\ resp' = [resp EXCEPT ![t] =
                               Json(400, "unknown approach", NoResult)]
                /\ ran' = ran
           ELSE IF r.payload = Missing
           THEN \* request.json["question"] raises KeyError before impl.run
                /\ resp' = [resp EXCEPT ![t] =
                               Json(500, "KeyError: " \o PayloadKey(r.endpoint),
                                    NoResult)]
                /\ ran' = ran
           ELSE LET impl == registry[r.approach]
                IN  /\ ran' = [ran EXCEPT ![t] =
                                  Append(@, [impl |-> impl, key |-> api_key,
                                             at |-> now])]
                    /\ \/ resp' = [resp EXCEPT ![t] =
                                      Json(200, "", [by |-> impl,
                                                     input |-> r.payload])]
                       \/ resp' = [resp EXCEPT ![t] =
                                      Json(500, "error in " \o impl, NoResult)]
    /\ pc' = [pc EXCEPT ![t] = "done"]
    /\ UNCHANGED <<now, openai_token, api_key, issued, ask_approaches,
                   chat_approaches, req, tokreg, chk>>
    /\ UNCHANGED <<envVars, gdVars, ddVars, daVars>>

\* the response is sent; the thread is free for the next request
Return(t) ==
    /\ pc[t] = "done"
    /\ pc' = [pc EXCEPT ![t] = "idle"]
    /\ req' = [req EXCEPT ![t] = NoReq]
    /\ tokreg' = [tokreg EXCEPT ![t] = 0]
    /\ chk' = [chk EXCEPT ![t] = NoChk]
    /\ ran' = [ran EXCEPT ![t] = <<>>]
    /\ resp' = [resp EXCEPT ![t] = NoResp]
    /\ UNCHANGED <<now, openai_token, api_key, issued, ask_approaches,
                   chat_approaches>>
    /\ UNCHANGED <<envVars, gdVars, ddVars, daVars>>

\* module load: lines 45-47 fetch the first token, 61-69 build the registries
AskInit ==
    /\ now = 0
    /\ issued = <<TokenLifetime>>
    /\ openai_token = [token |-> 1, expires_on |-> TokenLifetime]
    /\ api_key = 1
    /\ ask_approaches = AskApproaches0
    /\ chat_approaches = ChatApproaches0
    /\ pc = [t \in Threads |-> "idle"]
    /\ req = [t \in Threads |-> NoReq]
    /\ tokreg = [t \in Threads |-> 0]
    /\ chk = [t \in Threads |-> NoChk]
    /\ ran = [t \in Threads |-> <<>>]
    /\ resp = [t \in Threads |-> NoResp]

(***************************************************************************)
(* /delete_document                                                        *)
(***************************************************************************)
\* blob_client.get_blob_client("content", blob.name)
DeleteContainer == "content"

NoName == <<"<none>">>                 \* data.get('name') is None
NonString == <<"<5>">>                 \* a 'name' that is a number, as 5
DDNames == {NoName, <<>>, <<"a">>, <<"a", "b">>, NonString}
\* the JSON values of a body: only an object (a dict) has .get
DDBodies == {"object", "array", "null"}
DDNoResp == [status |-> 0, body |-> ""]
\* an exception that leaves the view function
DDRaised(error) == [status |-> 0, body |-> error]
NoResults == [live |-> 0, gone |-> 0]

\* if not blob_name_to_delete
NameMissing(name) == name = NoName \/ name = <<>>

\* blob.name.startswith(blob_name_to_delete)
BlobMatches(blobname, name) == StartsWith(blobname, name)

\* f"sourcefile eq '{blob_name_to_delete}.pdf'": the sourcefiles it selects
Filter(name) == {f \in SourceFiles : f = name \o Pdf}

\* a request reaches delete_document(); line 175: data = request.get_json()
DDReceive ==
    /\ ddpc = "idle"
    /\ \E body \in DDBodies :
         /\ ddbody' = body
         /\ IF body = "object"
            THEN \E name \in DDNames : ddname' = name
            ELSE ddname' = NoName
    /\ ddpc' = "check"
    /\ storage0' = storage
    /\ index0' = index
    /\ UNCHANGED <<ddlist, ddlisted, ddfailed, ddresults, ddresp>>
    /\ UNCHANGED <<askVars, envVars, gdVars, daVars>>

\* lines 176-181: data.get('name'), which raises AttributeError when data is
\* no dict; then the 400 answer, or blob_list = blob_container.list_blobs()
DDCheck ==
    /\ ddpc = "check"
    /\ IF ddbody # "object"
       THEN /\ ddresp' = DDRaised("AttributeError")
            /\ ddpc' = "done"
            /\ ddlist' = ddlist
       ELSE IF NameMissing(ddname)
       THEN /\ ddresp' = [status |-> 400, body |-> "Missing 'name' parameter"]
            /\ ddpc' = "done"
            /\ ddlist' = ddlist
       ELSE /\ ddlist' = storage[container]
            /\ ddpc' = "blobs"
            /\ ddresp' = ddresp
    /\ UNCHANGED <<ddbody, ddname, ddlisted, ddfailed, ddresults, storage0, index0>>
    /\ UNCHANGED <<askVars, envVars, gdVars, daVars>>

\* one iteration of the for loop over blob_list.  str.startswith raises
\* TypeError for a name that is no string, outside the try of lines 184-192
DDBlob ==
    /\ ddpc = "blobs"
    /\ \E b \in ddlist :
         /\ ddlist' = ddlist \ {b}
         /\ ddlisted' = ddlisted \cup {b}
         /\ IF ddname = NonString
            THEN /\ ddresp' = DDRaised("TypeError")
                 /\ ddpc' = "done"
                 /\ UNCHANGED <<storage, ddfailed>>
            ELSE /\ UNCHANGED <<ddpc, ddresp>>
                 /\ IF BlobMatches(b.name, ddname)
                    THEN \/ \* delete_blob() succeeds
                            /\ \E x \in storage[DeleteContainer] :
                                 x.name = b.name
                            /\ storage' = [storage EXCEPT ![DeleteContainer] =
                                              {x \in @ : x.name # b.name}]
                            /\ ddfailed' = ddfailed
                         \/ \* delete_blob() raises (no such blob, or a
                            \* service error): caught, printed, the loop
                            \* goes on
                            /\ ddfailed' = ddfailed \cup {b}
                            /\ storage' = storage
                    ELSE UNCHANGED <<storage, ddfailed>>
    /\ UNCHANGED <<container, index, stale>>
    /\ UNCHANGED <<ddbody, ddname, ddresults, storage0, index0>>
    /\ UNCHANGED <<askVars, gdVars, daVars>>

\* the for loop is over
DDBlobsDone ==
    /\ ddpc = "blobs"
    /\ ddlist = {}
    /\ ddpc' = "search"
    /\ UNCHANGED <<ddbody, ddname, ddlist, ddlisted, ddfailed, ddresults, ddresp,
                   storage0, index0>>
    /\ UNCHANGED <<askVars, envVars, gdVars, daVars>>

\* lines 201-208: the filtered search with top=1000, and the break
DDSearch ==
    /\ ddpc = "search"
    /\ LET F == Filter(ddname)
           size == PageSize(SumOver(index, F) + SumOver(stale, F))
       IN  \E live \in Pages(F, size) :
             /\ ddresults' = [live |-> Total(live), gone |-> size - Total(live)]
             /\ IF size = 0
                THEN /\ ddresp' = [status |-> 200, body |-> "200"]
                     /\ ddpc' = "done"
                ELSE /\ ddpc' = "delete"
                     /\ ddresp' = ddresp
    /\ UNCHANGED <<ddbody, ddname, ddlist, ddlisted, ddfailed, storage0, index0>>
    /\ UNCHANGED <<askVars, envVars, gdVars, daVars>>

\* lines 209-213: delete_documents of the results, then the sleep.  Some of
\* the documents may also be on the page delete_all_documents holds
DDDeleteDocs ==
    /\ ddpc = "delete"
    /\ LET live == [f \in SourceFiles |->
                      IF f \in Filter(ddname) THEN ddresults.live ELSE 0]
       IN  /\ index' = IndexAfterDelete(live)
           /\ stale' = StaleAfterDelete(live)
           /\ IF dapc = "delete"
              THEN \E both \in UpTo(SourceFiles, live) :
                     /\ \A f \in SourceFiles :
                          both[f] \in Overlaps(live[f], daBatch[f], index[f])
                     /\ daBatch' = [f \in SourceFiles |-> daBatch[f] - both[f]]
              ELSE daBatch' = daBatch
    /\ ddpc' = "search"
    /\ UNCHANGED <<container, storage, dapc, daInit>>
    /\ UNCHANGED <<ddbody, ddname, ddlist, ddlisted, ddfailed, ddresults, ddresp,
                   storage0, index0>>
    /\ UNCHANGED <<askVars, gdVars>>

\* the response is sent
DDReturn ==
    /\ ddpc = "done"
    /\ ddpc' = "idle"
    /\ ddbody' = "none"
    /\ ddname' = NoName
    /\ ddlist' = {}
    /\ ddlisted' = {}
    /\ ddfailed' = {}
    /\ ddresults' = NoResults
    /\ ddresp' = DDNoResp
    /\ UNCHANGED <<storage0, index0>>
    /\ UNCHANGED <<askVars, envVars, gdVars, daVars>>

DDInit ==
    /\ ddpc = "idle"
    /\ ddbody = "none"
    /\ ddname = NoName
    /\ ddlist = {}
    /\ ddlisted = {}
    /\ ddfailed = {}
    /\ ddresults = NoResults
    /\ ddresp = DDNoResp
    /\ storage0 = storage
    /\ index0 = index

(***************************************************************************)
(* /delete_all_documents                                                   *)
(***************************************************************************)
NoBatch == NoDocs

\* a slip: the loop stops as soon as a search matches less than a full page
DAShortPage(count) == count < SearchTop

\* if r.get_count() == 0: break
DAFinished(count) == count = 0

\* r.get_count() of search("*", include_total_count=True): the documents
\* the search sees
SearchCount == Total(index) + Total(stale)

\* a request reaches delete_all_documents()
DAReceive ==
    /\ dapc = "idle"
    /\ dapc' = "search"
    /\ daInit' = Total(index)
    /\ UNCHANGED daBatch
    /\ UNCHANGED <<askVars, envVars, gdVars, ddVars>>

\* lines 159-162: the search returns the number of documents it matches and
\* a page of at most 1000 of them
DASearch ==
    /\ dapc = "search"
    /\ LET count == SearchCount
       IN  IF DAFinished(count)
           THEN /\ dapc' = "done"
                /\ daBatch' = daBatch
           ELSE /\ dapc' = "delete"
                /\ \E live \in Pages(SourceFiles, PageSize(count)) :
                     daBatch' = live
    /\ UNCHANGED daInit
    /\ UNCHANGED <<askVars, envVars, gdVars, ddVars>>

\* lines 164-169: delete_documents of the page, then the sleep.  Some of
\* the documents may also be among the results delete_document holds
DADelete ==
    /\ dapc = "delete"
    /\ index' = IndexAfterDelete(daBatch)
    /\ stale' = StaleAfterDelete(daBatch)
    /\ IF ddpc = "delete"
       THEN \E both \in 0..ddresults.live :
              /\ \E f \in SourceFiles :
                   /\ Filter(ddname) = {f}
                   /\ both \in Overlaps(daBatch[f], ddresults.live, index[f])
              /\ ddresults' = [live |-> ddresults.live - both,
                               gone |-> ddresults.gone + both]
       ELSE ddresults' = ddresults
    /\ dapc' = "search"
    /\ UNCHANGED <<daBatch, daInit>>
    /\ UNCHANGED <<container, storage>>
    /\ UNCHANGED <<ddpc, ddbody, ddname, ddlist, ddlisted, ddfailed, ddresp,
                   storage0, index0>>
    /\ UNCHANGED <<askVars, gdVars>>

\* return "Deleted all documents", and the response is sent
DAReturn ==
    /\ dapc = "done"
    /\ dapc' = "idle"
    /\ daBatch' = NoBatch
    /\ UNCHANGED daInit
    /\ UNCHANGED <<askVars, envVars, gdVars, ddVars>>

DAInit ==
    /\ dapc = "idle"
    /\ daBatch = NoBatch
    /\ daInit = 0

(***************************************************************************)
(* The application: every handler is ready for a request.  What differs    *)
(* between the initial states is what the services hold.                   *)
(***************************************************************************)
MaxDocs == 2
DAExtra == 2
DDBlobs == {[name |-> <<"a", "-", "1">>, last_modified |-> 1, etag |-> 1],
            [name |-> <<"a", "b", "-", "1">>, last_modified |-> 1, etag |-> 2],
            [name |-> <<"b", "-", "1">>, last_modified |-> 1, etag |-> 3]}
DAInitSizes == (0..DAExtra) \cup (SearchTop..(SearchTop + DAExtra))

HandlersInit == AskInit /\ GDInit /\ DDInit /\ DAInit

\* nothing stored, nothing indexed
InitAsk ==
    /\ container = "content"
    /\ storage = [c \in Containers |-> {}]
    /\ index = NoDocs
    /\ stale = NoDocs
    /\ HandlersInit

\* blobs of any names in the configured container
InitDocs ==
    /\ container = "content"
    /\ \E n \in 0..MaxBlobs :
         \E l \in [1..n -> [name : Names, last_modified : 1..MaxDate]] :
           /\ \A i, j \in 1..n : i # j => l[i].name # l[j].name
           /\ storage = [c \in Containers |->
                           IF c = container
                           THEN {[name |-> l[i].name,
                                  last_modified |-> l[i].last_modified,
                                  etag |-> i] : i \in 1..n}
                           ELSE {}]
    /\ index = NoDocs
    /\ stale = NoDocs
    /\ HandlersInit

\* some documents, with blobs in both containers and a few index documents
InitDelete ==
    /\ container \in Containers
    /\ storage \in [Containers -> SUBSET DDBlobs]
    /\ index \in [SourceFiles -> 0..MaxDocs]
    /\ stale = NoDocs
    /\ HandlersInit

\* an index of up to a page of documents, and of more
InitDeleteAll ==
    /\ container = "content"
    /\ storage = [c \in Containers |-> {}]
    /\ \E n \in DAInitSizes, f \in SourceFiles :
         index = [g \in SourceFiles |-> IF g = f THEN n ELSE 0]
    /\ stale = NoDocs
    /\ HandlersInit

AskNext ==
    \/ Tick
    \/ \E t \in Threads : Receive(t)
    \/ \E t \in Threads : EnsureCheck(t)
    \/ \E t \in Threads : EnsureFetch(t)
    \/ \E t \in Threads : EnsureAssign(t)
    \/ \E t \in Threads : EnsureLoad(t)
    \/ \E t \in Threads : EnsureStore(t)
    \/ \E t \in Threads : ReadApproach(t)
    \/ \E t \in Threads : Dispatch(t)
    \/ \E t \in Threads : Return(t)
GDNext == GDList \/ GDStep \/ GDReturn \/ GDFinish
DDNext ==
    \/ DDReceive
    \/ DDCheck
    \/ DDBlob
    \/ DDBlobsDone
    \/ DDSearch
    \/ DDDeleteDocs
    \/ DDReturn
DANext == DAReceive \/ DASearch \/ DADelete \/ DAReturn

Next == AskNext \/ GDNext \/ DDNext \/ DANext \/ Propagate
Init == InitAsk \/ InitDocs \/ InitDelete \/ InitDeleteAll
Spec == Init /\ [][Next]_vars

(***************************************************************************)
(* The behaviours of Spec in which only some endpoints get requests.       *)
(***************************************************************************)
\* /ask and /chat
SpecAsk == InitAsk /\ [][AskNext]_vars

\* /get_documents
SpecDocs == InitDocs /\ [][GDNext]_vars

\* /delete_document, with /delete_all_documents beside it
DeleteNext == DDNext \/ DANext \/ Propagate
SpecDelete == InitDelete /\ [][DeleteNext]_vars

\* /delete_all_documents.  The handler's thread keeps running, and a
\* deletion becomes visible to search after a while
DeleteAllNext == DANext \/ Propagate
SpecDeleteAll ==
    /\ InitDeleteAll
    /\ [][DeleteAllNext]_vars
    /\ WF_vars(DASearch)
    /\ WF_vars(DADelete)
    /\ WF_vars(Propagate)

(***************************************************************************)
(* The claims.                                                             *)
(***************************************************************************)
Registry0(endpoint) ==
    IF endpoint = "ask" THEN AskApproaches0 ELSE ChatApproaches0
ApproachNames == {"rtr", "rrr", "rda", "xyz"}

\* C1: when ensure_openai_token runs and the held token's expires_on is
\* already past, a new token is fetched; and no strategy runs with a key
\* whose token expired before the time of the run.
C1_TokenFreshWhenStrategyRuns ==
    \A t \in Threads :
        /\ (chk[t] # NoChk /\ chk[t].expires_on < chk[t].at) => chk[t].refresh
        /\ \A i \in 1..Len(ran[t]) : issued[ran[t][i].key] >= ran[t][i].at

\* C2: no exception escapes ask() or chat(): every request is answered by
\* the handler with a JSON body, and a failed one with status 500 or 400.
C2_NoExceptionEscapes ==
    \A t \in Threads : pc[t] = "done" => resp[t].kind = "json"

\* C3 as stated: a request with a registered approach runs exactly that one
\* strategy and is answered with its outcome (its result, or the 500 of the
\* exception it raised); a request with any other approach name runs none
\* and gets 400 "unknown approach"; the registries never change.
C3_ExactlyOneStrategyRuns ==
    /\ ask_approaches = AskApproaches0
    /\ chat_approaches = ChatApproaches0
    /\ \A t \in Threads : pc[t] = "done" =>
         LET r == req[t]
             reg == Registry0(r.endpoint)
         IN  /\ r.approach \in DOMAIN reg =>
                  /\ Len(ran[t]) = 1
                  /\ ran[t][1].impl = reg[r.approach]
                  /\ resp[t] \in {Json(200, "", [by |-> reg[r.approach],
                                                  input |-> r.payload]),
                                  Json(500, "error in " \o reg[r.approach],
                                       NoResult)}
             /\ r.approach \in ApproachNames \ DOMAIN reg =>
                  /\ ran[t] = <<>>
                  /\ resp[t] = Json(400, "unknown approach", NoResult)

\* C3 amended: a request runs at most one strategy, and only the one its
\* endpoint's registry holds under the request's approach; it runs one
\* exactly when the approach is registered, the body has the 'question'
\* (/ask) or 'history' (/chat), and neither ensure_openai_token nor the read
\* of 'approach' raised; the answer is then the strategy's result with 200,
\* or 500 when it raised.  When neither of the two raised, a registered
\* approach without the payload field gets 500 and another approach name
\* gets 400 "unknown approach", both without running a strategy.  The
\* registries never change.
C3_StrategySelection ==
    /\ ask_approaches = AskApproaches0
    /\ chat_approaches = ChatApproaches0
    /\ \A t \in Threads : pc[t] = "done" =>
         LET r == req[t]
             reg == Registry0(r.endpoint)
             answered == resp[t].kind = "json"
         IN  /\ Len(ran[t]) <= 1
             /\ \A i \in 1..Len(ran[t]) :
                  /\ r.approach \in DOMAIN reg
                  /\ ran[t][i].impl = reg[r.approach]
             /\ ran[t] # <<>> <=>
                  /\ r.approach \in DOMAIN reg
                  /\ r.payload # Missing
                  /\ answered
             /\ ran[t] # <<>> =>
                  resp[t] \in {Json(200, "", [by |-> reg[r.approach],
                                              input |-> r.payload]),
                               Json(500, "error in " \o reg[r.approach],
                                    NoResult)}
             /\ (answered /\ r.approach \in DOMAIN reg /\ r.payload = Missing)
                  => resp[t].status = 500
             /\ (answered /\ r.approach \in ApproachNames \ DOMAIN reg)
                  => resp[t] = Json(400, "unknown approach", NoResult)

\* C3 witnesses: /chat has answered an "rrr" request with the result of the
\* chat strategy, and /chat has refused "rtr", which only /ask registers.
C3_Witness ==
    /\ pc[1] = "done" /\ pc[2] = "done"
    /\ req[1] = [endpoint |-> "chat", approach |-> "rrr", payload |-> "q"]
    /\ resp[1] = Json(200, "", [by |-> "ChatReadRetrieveReadApproach",
                                input |-> "q"])
    /\ req[2].endpoint = "chat" /\ req[2].approach = "rtr"
    /\ resp[2].status = 400

\* C10: when no thread is inside ensure_openai_token, the key in use is the
\* held token.
C10_KeyIsHeldToken ==
    (\A t \in Threads : pc[t] \notin {"ensure", "fetch", "assign", "loadtok", "storekey"})
        => api_key = openai_token.token

\* the base name of the claims: the text before the last hyphen, the whole
\* name when there is none
TextBeforeLastHyphen(name) ==
    IF RFind(name, "-") = -1 THEN name ELSE SubSeq(name, 1, RFind(name, "-"))
GroupOf(g) ==
    {i \in 1..Len(listing) : TextBeforeLastHyphen(listing[i].name) = g}

\* C4: the result of get_document_names has exactly one entry per distinct
\* base name, and the entry carries the (last_modified, etag) of a blob of
\* the group with the earliest last_modified.
C4_OneEntryPerBaseName ==
    gdpc = "done" =>
        LET groups == {TextBeforeLastHyphen(listing[i].name) :
                         i \in 1..Len(listing)}
        IN  /\ Len(blob_data) = Cardinality(groups)
            /\ \A g \in groups :
                 /\ HasKey(blob_data, g)
                 /\ \E i \in GroupOf(g) :
                      /\ Get(blob_data, g) =
                            <<listing[i].last_modified, listing[i].etag>>
                      /\ \A j \in GroupOf(g) :
                           listing[i].last_modified <= listing[j].last_modified

\* C5: the key a visited blob is grouped under is a prefix of its name that
\* is followed by a hyphen or is the whole name, and two blobs with distinct
\* names without a hyphen have distinct keys.
C5_KeyIsPrefixBeforeHyphen ==
    gdpc \in {"loop", "done"} =>
      /\ \A i \in 1..(gdi - 1) :
           LET name == listing[i].name
               k == BaseName(name)
           IN  /\ HasKey(blob_data, k)
               /\ StartsWith(name, k)
               /\ Len(k) = Len(name) \/ name[Len(k) + 1] = "-"
      /\ \A i, j \in 1..(gdi - 1) :
           (/\ i # j
            /\ RFind(listing[i].name, "-") = -1
            /\ RFind(listing[j].name, "-") = -1)
              => BaseName(listing[i].name) # BaseName(listing[j].name)

\* a step of the delete_document handler
DDStep == ddpc' # ddpc \/ ddlist' # ddlist

\* the JSON body of the request in progress has no 'name', or an empty one
NameAbsent ==
    /\ ddbody # "none"
    /\ ddbody # "object" \/ ddname = NoName \/ ddname = <<>>

\* C6: a delete_document request whose 'name' is missing or empty is answered
\* 400 "Missing 'name' parameter" without going past the check, and no step
\* of its handler changes the blobs or the index.
C6_MissingNameRejected ==
    /\ []((ddpc \in {"blobs", "search", "delete", "done"} /\ NameAbsent)
          => /\ ddpc = "done"
             /\ ddresp = [status |-> 400, body |-> "Missing 'name' parameter"])
    /\ [][(ddpc # "idle" /\ NameAbsent /\ DDStep)
            => (storage' = storage /\ index' = index)]_vars

\* C7: when delete_document answers "200" and no deletion failed, the
\* configured container holds none of the listed blobs whose name starts
\* with the name, and the last filtered search returned nothing.
C7_ListedBlobsGone ==
    (ddpc = "done" /\ ddresp.status = 200 /\ ddfailed = {})
      => /\ \A b \in ddlisted :
              BlobMatches(b.name, ddname) =>
                  \A x \in storage[container] : x.name # b.name
         /\ ddresults = NoResults

\* C8: a step of delete_document leaves every blob whose base name is not
\* the name, and every index document whose sourcefile is not '<name>.pdf'.
C8_OnlyNamedDocumentDeleted ==
    [][DDStep =>
         /\ \A c \in Containers : \A b \in storage[c] :
              TextBeforeLastHyphen(b.name) # ddname => b \in storage'[c]
         /\ \A f \in SourceFiles \ Filter(ddname) : index'[f] = index[f]]_vars

\* C9: delete_all_documents leaves its loop only at a search that counts 0
\* documents, the index is empty when it has returned, and a started request
\* does return.
C9_DeleteAllTerminates ==
    /\ [][(dapc # "done" /\ dapc' = "done") => SearchCount = 0]_vars
    /\ [](dapc = "done" => Total(index) = 0)
    /\ (dapc = "search") ~> (dapc = "done")

\* C9 witness: the request has returned for an index that held more
\* documents than one page.
C9_Witness == dapc = "done" /\ daInit > SearchTop /\ Total(index) = 0

====
